---- MODULE Spec2Model ----
(***************************************************************************)
(* The I2C-to-SD-card bridge firmware (ATTINY1614_i2cSDCard_v14.ino) as a  *)
(* state machine.  One action per branch of the TWI interrupt service      *)
(* routine; each action runs the whole handler the branch calls.  The SD   *)
(* library is modelled at the calls the firmware makes into it.            *)
(***************************************************************************)
EXTENDS Integers, Sequences, FiniteSets, TLC

----------------------------------------------------------------------------
(* Command bytes (ASCII) and the other literals of the firmware.           *)

CmdNone == 0
CmdA == 65
CmdC == 67
CmdD == 68
CmdE == 69
CmdF == 70
CmdK == 75
CmdL == 76
CmdM == 77
CmdQ == 81
CmdR == 82
CmdS == 83
CmdV == 86
CmdW == 87
CmdX == 88

Namelength == 64
NameBufLen == 13
RtcLen == 6
EndMarker == 255
TypeDir == 68
TypeFile == 70
Slash == 47
LEDoff == 0
LEDgreen == 1
LEDred == 2
VolOk == 1
VolFail == 255

\* A byte that is no command of the protocol ('Z').
CmdBad == 90

----------------------------------------------------------------------------
(* Bounds of the model.                                                    *)

\* Longest path the host sends in the workloads that use the file system.
MaxNameLen == 1
\* Most bytes a host appends to one file.
MaxFileLen == 2
\* Most one-byte transactions whose payload the history joins.
MaxParts == 2
\* Most response bytes the host asks for beyond the length of a response.
MaxExtraReads == 1
\* Size of the large file a card image may hold (0x01020304).
BigSize == 16909060
\* The byte the large file is filled with.
FillByte == 120

\* What the host does with the bridge: each workload is a set of commands
\* and payload bytes.
Workloads == {"name", "file", "big", "dir", "vol", "clock", "chunk"}

\* Payload bytes of W and A.
DataBytes == {7, 255}

\* The entries the root directory of the card can hold, in slot order.
EntrySlots == << <<97>>, <<98>> >>
EntryNames == {EntrySlots[i] : i \in 1..Len(EntrySlots)}

----------------------------------------------------------------------------
(* The SD card: a root directory of files and (empty) directories.  A      *)
(* file's content is `base` fill bytes followed by `data`.                 *)

\* `stamp` is the FAT date and time of creation.
NoStamp == <<0, 0>>
Absent == [kind |-> "none", base |-> 0, data |-> <<>>, stamp |-> NoStamp]
EmptyFile == [kind |-> "file", base |-> 0, data |-> <<>>, stamp |-> NoStamp]
BigFile == [kind |-> "file", base |-> BigSize, data |-> <<>>, stamp |-> NoStamp]
SmallFile == [kind |-> "file", base |-> 0, data |-> <<7>>, stamp |-> NoStamp]
Directory == [kind |-> "dir", base |-> 0, data |-> <<>>, stamp |-> NoStamp]

\* FAT_DATE and FAT_TIME of the SD library: 16-bit packed fields, the year
\* counted from 1980 in 7 bits and the time in units of 2 seconds.
FAT_DATE(year, month, day) == ((year - 1980) * 512 + month * 32 + day) % 65536
FAT_TIME(hour, minute, second) == (hour * 2048 + minute * 32 + second \div 2) % 65536

\* The two cards the bridge may be fitted with.
Cards ==
  { [type |-> 2, fatType |-> 16, blocks |-> 64, clusters |-> 246002],
    [type |-> 3, fatType |-> 32, blocks |-> 8, clusters |-> 16909060] }

\* The card images a workload starts from.
Images(w) ==
  CASE w \in {"file", "chunk"} -> { [n \in EntryNames |-> Absent] }
    [] w = "big" -> { [n \in EntryNames |-> IF n = <<97>> THEN BigFile ELSE Absent] }
    [] w = "dir" -> { [n \in EntryNames |-> IF n = <<97>> THEN x ELSE y]
                       : x \in {Absent, Directory}, y \in {Absent, SmallFile} }
    [] w = "clock" -> { [n \in EntryNames |-> Absent] }
    [] OTHER -> { [n \in EntryNames |-> IF n = <<97>> THEN SmallFile ELSE Absent] }

\* Truncation to a byte, as in (uint8_t)x.  File sizes are 32-bit in the SD
\* library as in the firmware and stay below 2^31 here, so they need none.
Byte(x) == x % 256

\* How SD resolves a path: the root itself, an entry of the root, or nothing.
Resolve(name) ==
  IF name \in {<<>>, <<Slash>>} THEN "root"
  ELSE IF name \in EntryNames THEN "entry"
  ELSE IF Len(name) >= 2 /\ name[1] = Slash /\ Tail(name) \in EntryNames THEN "entry"
  ELSE "invalid"

EntryOf(name) ==
  IF name \in EntryNames \/ name = <<>> THEN name ELSE Tail(name)

\* The node a path names (the root is a directory).
NodeAt(f, name) ==
  CASE Resolve(name) = "root" -> Directory
    [] Resolve(name) = "entry" -> f[EntryOf(name)]
    [] OTHER -> Absent

\* SD.exists(path)
SDexists(f, name) == NodeAt(f, name).kind # "none"

FileSizeOf(node) == node.base + Len(node.data)

\* The byte at 0-based position p of a file.
ByteAt(node, p) == IF p < node.base THEN FillByte ELSE node.data[p - node.base + 1]

\* A File object: closed, or open on a path at a position.
NoFile == [open |-> FALSE, path |-> <<>>, pos |-> 0, mode |-> "r"]

\* SD.open(path, O_READ): any existing file or directory.
OpenRead(f, name) ==
  IF SDexists(f, name)
  THEN [open |-> TRUE, path |-> name, pos |-> 0, mode |-> "r"]
  ELSE NoFile

\* SD.open(path, O_RDWR | O_CREAT | O_TRUNC) and ... | O_APPEND: the file is
\* created when absent; a directory cannot be opened for writing.
CanOpenWrite(f, name) == Resolve(name) = "entry" /\ f[EntryOf(name)].kind # "dir"

OpenTrunc(f, name) ==
  IF CanOpenWrite(f, name)
  THEN [open |-> TRUE, path |-> name, pos |-> 0, mode |-> "w"]
  ELSE NoFile

OpenAppend(f, name) ==
  IF CanOpenWrite(f, name)
  THEN [open |-> TRUE, path |-> name,
        pos |-> FileSizeOf(f[EntryOf(name)]), mode |-> "a"]
  ELSE NoFile

\* Mutant: O_TRUNC left out of the flags of 'W'.
FsAfterTruncKeeps(f, name, t) ==
  IF CanOpenWrite(f, name) /\ f[EntryOf(name)].kind = "none"
  THEN [f EXCEPT ![EntryOf(name)] = [EmptyFile EXCEPT !.stamp = t]]
  ELSE f

\* Mutant: 'A' opens with the flags of 'W'.
FsAfterAppendOpenTruncates(f, name, t) ==
  IF CanOpenWrite(f, name)
  THEN [f EXCEPT ![EntryOf(name)] = [EmptyFile EXCEPT !.stamp = t]]
  ELSE f

\* The card after SD.open with O_CREAT | O_TRUNC, and with O_CREAT | O_APPEND.
\* A file that is created takes the stamp `t` of the date-time callback; a
\* file that exists keeps the stamp of its creation.
FsAfterTrunc(f, name, t) ==
  IF ~CanOpenWrite(f, name) THEN f
  ELSE IF f[EntryOf(name)].kind = "none"
  THEN [f EXCEPT ![EntryOf(name)] = [EmptyFile EXCEPT !.stamp = t]]
  ELSE [f EXCEPT ![EntryOf(name)].base = 0, ![EntryOf(name)].data = <<>>]

FsAfterAppendOpen(f, name, t) ==
  IF CanOpenWrite(f, name) /\ f[EntryOf(name)].kind = "none"
  THEN [f EXCEPT ![EntryOf(name)] = [EmptyFile EXCEPT !.stamp = t]]
  ELSE f

\* myFile.write(b): the byte goes to the end of the file the handle is on.
FsAfterWrite(f, h, b) ==
  IF h.open /\ h.mode # "r" /\ NodeAt(f, h.path).kind = "file"
  THEN [f EXCEPT ![EntryOf(h.path)].data = Append(@, b)]
  ELSE f

\* myFile.read(): the next byte, or -1 when there is none.
FileRead(f, h) ==
  IF h.open /\ NodeAt(f, h.path).kind = "file" /\ h.pos < FileSizeOf(NodeAt(f, h.path))
  THEN ByteAt(NodeAt(f, h.path), h.pos)
  ELSE -1

\* myFile.size()
FileSize(f, h) ==
  IF h.open /\ NodeAt(f, h.path).kind = "file" THEN FileSizeOf(NodeAt(f, h.path)) ELSE 0

\* SD.mkdir, SD.rmdir, SD.remove: whether the call succeeds, and the card after.
\* SD.mkdir makes what is missing of a path and succeeds when the path is
\* there already, be it a directory or a file.
MkdirOk(f, name) == Resolve(name) = "entry"

RmdirOk(f, name) == Resolve(name) = "entry" /\ f[EntryOf(name)].kind = "dir"
RemoveOk(f, name) == Resolve(name) = "entry" /\ f[EntryOf(name)].kind = "file"

\* Mutant: SD.mkdir reports success and makes nothing.
FsAfterMkdirNothing(f, name) == f

FsAfterMkdir(f, name) ==
  IF MkdirOk(f, name) /\ f[EntryOf(name)].kind = "none"
  THEN [f EXCEPT ![EntryOf(name)] = Directory]
  ELSE f

FsAfterRmdir(f, name) ==
  IF RmdirOk(f, name) THEN [f EXCEPT ![EntryOf(name)] = Absent] ELSE f

FsAfterRemove(f, name) ==
  IF RemoveOk(f, name) THEN [f EXCEPT ![EntryOf(name)] = Absent] ELSE f

\* Mutant: every directory handle iterates the entries of the root.
NextSlotOfRoot(f, h, idx) ==
  LET later == {i \in 1..Len(EntrySlots) :
                  i > idx /\ f[EntrySlots[i]].kind # "none"}
  IN IF h.open /\ later # {}
     THEN CHOOSE i \in later : \A j \in later : i <= j
     ELSE 0

\* openNextFile() on a directory handle at slot `idx`: the slot of the next
\* entry, or 0 when there is none.  Only the root holds entries.
NextSlot(f, h, idx) ==
  LET later == {i \in 1..Len(EntrySlots) :
                  i > idx /\ f[EntrySlots[i]].kind # "none"}
  IN IF h.open /\ Resolve(h.path) = "root" /\ later # {}
     THEN CHOOSE i \in later : \A j \in later : i <= j
     ELSE 0

\* strrchr(name, '/') + 1, or name: the part after the last slash.
RECURSIVE BaseName(_)
BaseName(name) ==
  IF \E i \in 1..Len(name) : name[i] = Slash
  THEN BaseName(Tail(name))
  ELSE name

\* strncpy into the zeroed 13-byte buffer: at most 12 characters are kept.
CopyName(name) ==
  IF Len(name) > NameBufLen - 1 THEN SubSeq(name, 1, NameBufLen - 1) ELSE name

----------------------------------------------------------------------------
(* State.                                                                  *)

VARIABLES
  workload,                \* what the host does (fixed for a run)
  fs,                      \* the card's root directory: entry name -> node
  card,                    \* the card fitted
  bus,                     \* where the bus transaction stands
  RXACK,                   \* TWI0.SSTATUS RXACK bit: TRUE = host sent NACK
  SDATA,                   \* TWI0.SDATA
  SCTRLB,                  \* the last SendResponse: "ACK" or "NACK"
  command, ch, ptr, checknack,
  Filename,                \* the C string held in Filename[]
  FilenameEnd,             \* the byte just past Filename[63]
  named,                   \* history: the bytes the last F transaction with data stored
  rtc_buffer, rtc_buffer_ptr,
  clock,                   \* currentYear .. currentSecond
  myFile, Filesize,
  vol,                     \* volFatType, volBlocks, volClusters
  dirList_state, dirList_byteCounter, dirList_filenameBuffer,
  dirList_entrySize, dirList_dirOpen, dirList_currentDir, dirList_currentEntry,
  led,
  sent,                    \* history: bytes served since the last address match
  served,                  \* history: how many bytes this transaction has served
  nwritten,                \* history: bytes written since the address match (0, 1, 2 = more)
  fsCalls,                 \* history: SD calls made since the transaction began
  txData,                  \* history: W/A payload bytes written in this transaction
  chain,                   \* history: what W then A* transactions ended by stop wrote
  stream,                  \* history: bytes an L transaction has served since its command byte
  dropped,                 \* history: an address match for write has superseded a C
                           \* transaction that held all 6 bytes, and no stop and no
                           \* further complete C transaction has followed
  parts,                   \* history: the payload of consecutive one-byte W or A
                           \* transactions on one file, each ended by stop
  lastOp,                  \* history: the last M or D request served and its answer,
                           \* while only M, D and K transactions follow it
  cut                      \* history: dirList_state when the last stop or address
                           \* match for write arrived (until the next event)

twiVars == <<bus, RXACK, SDATA, SCTRLB>>
sessVars == <<command, ch, ptr, checknack>>
nameVars == <<Filename, FilenameEnd, named>>
rtcVars == <<rtc_buffer, rtc_buffer_ptr, clock>>
fileVars == <<myFile, Filesize>>
dirVars == <<dirList_state, dirList_byteCounter, dirList_filenameBuffer,
             dirList_entrySize, dirList_dirOpen, dirList_currentDir,
             dirList_currentEntry>>
cardVars == <<workload, fs, card, vol>>
histVars == <<sent, served, nwritten, fsCalls, txData, chain, stream, lastOp, cut,
              parts, dropped>>

vars == <<twiVars, sessVars, nameVars, rtcVars, fileVars, dirVars, cardVars,
          led, histVars>>

NoDir == [open |-> FALSE, path |-> <<>>, idx |-> 0]
NoEntry == [open |-> FALSE, slot |-> 0]
NoOp == [cmd |-> CmdNone, res |-> 0, was |-> "none", made |-> FALSE]
NoParts == [cmd |-> CmdNone, name |-> <<>>, data |-> <<>>]
NoChain == [valid |-> FALSE, entry |-> <<>>, data |-> <<>>, appends |-> 0]

\* Mutant: the callback reports the date and time of power-up.
dateTimeCallbackAtBoot == <<FAT_DATE(2025, 1, 1), FAT_TIME(0, 0, 0)>>

\* What the library's date-time callback reports: the clock, in FAT form.
dateTimeCallback ==
  <<FAT_DATE(clock.year, clock.month, clock.day),
    FAT_TIME(clock.hour, clock.minute, clock.second)>>

DefaultClock ==
  [year |-> 2025, month |-> 1, day |-> 1, hour |-> 0, minute |-> 0, second |-> 0]

Init ==
  /\ workload \in Workloads
  /\ fs \in Images(workload)
  /\ card \in IF workload = "vol" THEN Cards ELSE {CHOOSE c \in Cards : c.type = 2}
  /\ vol = [fatType |-> card.fatType, blocks |-> card.blocks, clusters |-> card.clusters]
  /\ bus = "idle" /\ RXACK = FALSE /\ SDATA = 0 /\ SCTRLB = "ACK"
  /\ command = CmdNone /\ ch = 0 /\ ptr = 0 /\ checknack = FALSE
  /\ Filename = <<>> /\ FilenameEnd \in IF workload = "name" THEN {0, 1} ELSE {0}
  /\ named = <<>>
  /\ rtc_buffer = [i \in 0..(RtcLen - 1) |-> 0] /\ rtc_buffer_ptr = 0
  /\ clock = DefaultClock
  /\ myFile = NoFile /\ Filesize = 0
  /\ dirList_state = "IDLE" /\ dirList_byteCounter = 0
  /\ dirList_filenameBuffer = <<>> /\ dirList_entrySize = 0
  /\ dirList_dirOpen = FALSE /\ dirList_currentDir = NoDir
  /\ dirList_currentEntry = NoEntry
  /\ led = LEDoff
  /\ sent = <<>> /\ served = 0 /\ nwritten = 0 /\ fsCalls = 0
  /\ txData = <<>> /\ chain = NoChain /\ stream = <<>> /\ cut = "IDLE"
  /\ lastOp = NoOp
  /\ parts = NoParts
  /\ dropped = FALSE

----------------------------------------------------------------------------
(* What the host sends.                                                    *)

\* The command bytes a workload uses.
HostCommands(w) ==
  CASE w = "name" -> {CmdF, CmdE, CmdBad}
    [] w = "file" -> {CmdF, CmdW, CmdA, CmdR, CmdS, CmdBad}
    [] w = "big" -> {CmdF, CmdA, CmdS, CmdX, CmdE}
    [] w = "dir" -> {CmdF, CmdL, CmdM, CmdD, CmdK}
    [] w = "vol" -> {CmdQ, CmdV, CmdL}
    [] w = "chunk" -> {CmdF, CmdW, CmdA}
    [] OTHER -> {CmdC, CmdF, CmdW}

\* The characters of the paths a workload names, and how long they get: the
\* "name" workload sends one more byte than Filename[] and its terminator hold,
\* the "clock" workload names the one file it creates.
NameChars(w) == IF w = "dir" THEN {Slash, 97, 98} ELSE {97}
NameLimit(w) ==
  CASE w = "name" -> Namelength + 1
    [] w = "clock" -> 1
    [] OTHER -> MaxNameLen

\* The clock bytes the host sends at each position: YY MM DD HH MM SS.
ClockBytes ==
  [i \in 0..RtcLen |->
     CASE i = 0 -> {24, 36, 230}
       [] i = 1 -> {7, 13}
       [] i = 2 -> {26}
       [] i = 3 -> {10}
       [] i = 4 -> {30}
       [] i = 5 -> {0, 59}
       [] OTHER -> {0}]

\* The bytes the host may write next.  A host whose command byte was rejected
\* tries one more and then gives up.
HostBytes ==
  CASE command = CmdNone -> IF nwritten < 2 THEN HostCommands(workload) ELSE {}
    [] command = CmdF -> IF ch < NameLimit(workload) THEN NameChars(workload) ELSE {}
    [] command \in {CmdW, CmdA} ->
         IF workload # "clock" /\ Len(NodeAt(fs, myFile.path).data) < MaxFileLen
         THEN DataBytes
         ELSE {}
    [] command = CmdC -> ClockBytes[rtc_buffer_ptr]
    [] OTHER -> {7}

\* The bytes of a whole listing of the directory a path names.
RECURSIVE ListLen(_, _)
ListLen(f, i) ==
  IF i > Len(EntrySlots) THEN 1
  ELSE (IF f[EntrySlots[i]].kind = "none" THEN 0 ELSE Len(EntrySlots[i]) + 6)
       + ListLen(f, i + 1)

\* The most bytes the host reads in one transaction: the response of the
\* active command and a few more.
ReadLimit ==
  MaxExtraReads +
    CASE command = CmdV -> 10
      [] command = CmdS -> 4
      [] command = CmdR -> MaxFileLen + 1
      [] command = CmdL -> IF Resolve(Filename) = "root" THEN ListLen(fs, 1) ELSE 1
      [] OTHER -> 1

----------------------------------------------------------------------------
(* Address match (ISR lines 483-491).                                      *)

\* Mutant: the clean-up closes the entry and forgets the directory.
ClosedDirForgotten == dirList_currentDir

\* The directory clean-up of AddressHostWrite and Stop.
ClosedDir == IF dirList_dirOpen THEN NoDir ELSE dirList_currentDir
ClosedEntry == IF dirList_dirOpen THEN NoEntry ELSE dirList_currentEntry

\* The session's file handle after AddressHostWrite.
FileAfterAddressWrite(h) == h

\* Mutant: the address match leaves the LEDs as they are.
LedAfterAddressWriteKept == led

\* Mutant: the address match leaves the command and the clock bytes received.
AbortedSessionKept(c, p) == <<c, p>>

\* command and rtc_buffer_ptr after AddressHostWrite.
AbortedSession(c, p) == <<CmdNone, 0>>

\* The LEDs after AddressHostWrite: LightLED(LEDoff).
LedAfterAddressWrite == LEDoff

AddressHostWrite ==
  /\ bus \in {"idle", "write", "done"}
  /\ bus' = "write" /\ SCTRLB' = "ACK"
  /\ command' = AbortedSession(command, rtc_buffer_ptr)[1]
  /\ rtc_buffer_ptr' = AbortedSession(command, rtc_buffer_ptr)[2]
  /\ ch' = 0 /\ ptr' = 0
  /\ led' = LedAfterAddressWrite
  /\ dirList_currentEntry' = ClosedEntry
  /\ dirList_currentDir' = ClosedDir
  /\ dirList_dirOpen' = FALSE
  /\ dirList_state' = "IDLE"
  /\ dirList_byteCounter' = 0
  /\ myFile' = FileAfterAddressWrite(myFile)
  /\ sent' = <<>> /\ served' = 0 /\ nwritten' = 0 /\ fsCalls' = 0 /\ txData' = <<>>
  /\ stream' = <<>>
  /\ UNCHANGED lastOp
  /\ parts' = IF command # CmdNone THEN NoParts ELSE parts
  /\ dropped' = (dropped \/ (command = CmdC /\ rtc_buffer_ptr = RtcLen))
  /\ chain' = IF command \in {CmdW, CmdA} THEN NoChain ELSE chain
  /\ cut' = dirList_state
  /\ UNCHANGED <<RXACK, SDATA, checknack, nameVars, rtc_buffer, clock, Filesize,
                 dirList_filenameBuffer, dirList_entrySize, cardVars>>

\* Mutant: no address match for read rewinds ptr.
PtrAfterAddressReadNever(c, p) == p

\* Mutant: every address match for read rewinds ptr.
PtrAfterAddressReadAlways(c, p) == 0

\* ptr after AddressHostRead.
PtrAfterAddressRead(c, p) == IF c = CmdV \/ c = CmdS THEN 0 ELSE p

AddressHostRead ==
  /\ bus \in {"idle", "write", "done"}
  /\ served < ReadLimit
  /\ bus' = "read" /\ SCTRLB' = "ACK"
  /\ ptr' = PtrAfterAddressRead(command, ptr)
  /\ sent' = <<>> /\ cut' = "IDLE"
  /\ parts' = NoParts
  /\ UNCHANGED dropped
  /\ UNCHANGED <<RXACK, SDATA, command, ch, checknack, nameVars, rtcVars, fileVars,
                 dirVars, cardVars, led, served, nwritten, fsCalls, txData, chain,
                 stream, lastOp>>

----------------------------------------------------------------------------
(* Stop (ISR lines 510-515).                                               *)

\* The two-digit year of the 'C' command, expanded.
YearRx(yy) == IF yy < 80 THEN 2000 + yy ELSE 1900 + yy

\* Mutant: the range checks are left out.
ClockValidAlways(b) == TRUE

\* The validation of the received clock bytes.
ClockValid(b) ==
  /\ b[1] >= 1 /\ b[1] <= 12
  /\ b[2] >= 1 /\ b[2] <= 31
  /\ b[3] <= 23 /\ b[4] <= 59 /\ b[5] <= 59
  /\ YearRx(b[0]) >= 1980

ClockOf(b) ==
  [year |-> YearRx(b[0]), month |-> b[1], day |-> b[2],
   hour |-> b[3], minute |-> b[4], second |-> b[5]]

\* Mutant: Stop leaves ptr where the transaction moved it.
PtrAfterStopKept == ptr

\* ptr after Stop.
PtrAfterStop == 0

\* Whether Stop closes the session's file.
StopCloses(h, c) == h.open /\ c \in {CmdW, CmdR, CmdA, CmdS}

\* The history of W then A* transactions, at a stop.
ChainAtStop ==
  IF command = CmdW
  THEN [valid |-> TRUE, entry |-> EntryOf(Filename), data |-> txData, appends |-> 0]
  ELSE IF command = CmdA /\ chain.valid /\ chain.entry = EntryOf(Filename)
  THEN [chain EXCEPT !.data = @ \o txData,
                     !.appends = IF @ < 2 THEN @ + 1 ELSE @]
  ELSE chain

\* The history of one-byte W or A transactions, at a stop: the transaction
\* that ends continues the payload when it has the same command and file name,
\* and begins one when it is a W or an A on a file that held nothing.
PartsAtStop ==
  IF workload = "chunk" /\ command \in {CmdW, CmdA} /\ Len(txData) = 1
  THEN IF parts.cmd = command /\ parts.name = Filename /\ Len(parts.data) < MaxParts
       THEN [parts EXCEPT !.data = @ \o txData]
       ELSE IF command = CmdW \/ FileSizeOf(NodeAt(fs, Filename)) = 1
       THEN [cmd |-> command, name |-> Filename, data |-> txData]
       ELSE NoParts
  ELSE IF command = CmdNone /\ nwritten = 0 THEN parts
  ELSE NoParts

Stop ==
  /\ bus \in {"idle", "write", "done"}
  /\ bus' = "idle"
  /\ checknack' = FALSE
  /\ clock' = IF command = CmdC /\ rtc_buffer_ptr = RtcLen /\ ClockValid(rtc_buffer)
              THEN ClockOf(rtc_buffer)
              ELSE clock
  /\ myFile' = IF StopCloses(myFile, command) THEN NoFile ELSE myFile
  /\ led' = IF (command = CmdC /\ rtc_buffer_ptr = RtcLen) \/ StopCloses(myFile, command)
            THEN LEDoff
            ELSE led
  /\ dirList_currentEntry' = ClosedEntry
  /\ dirList_currentDir' = ClosedDir
  /\ dirList_dirOpen' = FALSE
  /\ dirList_state' = "IDLE"
  /\ dirList_byteCounter' = 0
  /\ command' = CmdNone /\ ch' = 0 /\ ptr' = PtrAfterStop /\ rtc_buffer_ptr' = 0
  /\ sent' = <<>> /\ served' = 0 /\ nwritten' = 0 /\ fsCalls' = 0 /\ txData' = <<>>
  /\ stream' = <<>>
  /\ UNCHANGED lastOp
  /\ parts' = PartsAtStop
  /\ dropped' = FALSE
  /\ chain' = ChainAtStop
  /\ cut' = dirList_state
  /\ UNCHANGED <<RXACK, SDATA, SCTRLB, nameVars, rtc_buffer, Filesize,
                 dirList_filenameBuffer, dirList_entrySize, cardVars>>

----------------------------------------------------------------------------
(* A byte written by the host (ISR lines 503-506).                         *)

\* The commands DataHostWrite accepts without touching the card.
ImmediateCommands == {CmdQ, CmdV, CmdK, CmdM, CmdD, CmdX, CmdL, CmdE, CmdC, CmdF}
OpeningCommands == {CmdW, CmdR, CmdS, CmdA}

\* Whether the byte being written is taken as the command byte.
IsCommandByte(c) == c = CmdNone

\* Whether Filename[] takes another byte at index c.
NameFits(c) == c < Namelength

\* Mutant: a seventh clock byte is taken as well.
RtcFitsSeven(p) == p <= RtcLen

\* Whether rtc_buffer[] takes another byte at index p.
RtcFits(p) == p < RtcLen

\* Mutant: the terminator is not written after the byte.
StoreNameNoNul(name, c, b) ==
  IF c > Len(name) THEN name
  ELSE SubSeq(name, 1, c) \o <<b>> \o SubSeq(name, c + 2, Len(name))

\* Mutant: the command byte F clears the file name.
NameAfterCommandCleared(name, c) == IF c = CmdF THEN <<>> ELSE name

\* Filename after a command byte c: the command byte leaves it alone.
NameAfterCommand(name, c) == name

\* Filename[c] = b; Filename[c + 1] = 0, as the C string the array then holds.
StoreName(name, c, b) ==
  IF c > Len(name) THEN name
  ELSE IF b = 0 THEN SubSeq(name, 1, c)
  ELSE SubSeq(name, 1, c) \o <<b>>

\* The File that SD.open returns for an opening command, and the card after.
OpenFor(c, f, name) ==
  CASE c = CmdW -> OpenTrunc(f, name)
    [] c = CmdA -> OpenAppend(f, name)
    [] OTHER -> OpenRead(f, name)

\* Mutant: opening a file changes nothing on the card.
FsAfterOpenLazy(c, f, name, t) == f

FsAfterOpen(c, f, name, t) ==
  CASE c = CmdW -> FsAfterTrunc(f, name, t)
    [] c = CmdA -> FsAfterAppendOpen(f, name, t)
    [] OTHER -> f

\* Mutant: the command stays active when its file did not open.
CommandAfterOpenKept(b, h) == b

\* The active command after SD.open for command byte b returned h.
CommandAfterOpen(b, h) == IF h.open THEN b ELSE CmdNone

\* The first byte after the address match: the command byte.
CommandByte(b) ==
  /\ IsCommandByte(command)
  /\ ptr' = 0 /\ ch' = 0 /\ rtc_buffer_ptr' = 0
  /\ Filename' = NameAfterCommand(Filename, b)
  /\ UNCHANGED <<FilenameEnd, named, rtc_buffer, txData>>
  /\ \/ /\ b \in ImmediateCommands
        /\ command' = b /\ SCTRLB' = "ACK"
        /\ UNCHANGED <<myFile, fs, led, fsCalls, chain>>
     \/ /\ b \in OpeningCommands
        /\ myFile' = OpenFor(b, fs, Filename)
        /\ fs' = FsAfterOpen(b, fs, Filename, dateTimeCallback)
        /\ fsCalls' = fsCalls + 1
        /\ chain' = IF b = CmdW /\ myFile'.open /\ chain.entry = EntryOf(Filename)
                    THEN NoChain
                    ELSE chain
        /\ command' = CommandAfterOpen(b, myFile')
        /\ IF myFile'.open
           THEN led' = LEDgreen /\ SCTRLB' = "ACK"
           ELSE led' = LEDred /\ SCTRLB' = "NACK"
     \/ /\ b \notin ImmediateCommands \cup OpeningCommands
        /\ command' = CmdNone /\ SCTRLB' = "NACK"
        /\ UNCHANGED <<myFile, fs, led, fsCalls, chain>>

\* Mutant: a byte no command expects is acknowledged.
UnexpectedDataAck == "ACK"

\* The answer to a data byte for a command that takes no data.
UnexpectedDataAnswer == "NACK"

\* A later byte: data for the active command.
DataByte(b) ==
  /\ ~IsCommandByte(command)
  /\ UNCHANGED <<command, ptr, fsCalls, chain>>
  /\ \/ /\ command = CmdF
        /\ IF NameFits(ch)
           THEN /\ Filename' = StoreName(Filename, ch, b)
                /\ named' = IF ch = 0 THEN <<b>> ELSE Append(named, b)
                /\ FilenameEnd' = IF ch + 1 >= Namelength THEN 0 ELSE FilenameEnd
                /\ ch' = ch + 1
                /\ SCTRLB' = "ACK"
           ELSE /\ SCTRLB' = "NACK"
                /\ UNCHANGED <<nameVars, ch>>
        /\ UNCHANGED <<myFile, fs, led, rtc_buffer, rtc_buffer_ptr, txData>>
     \/ /\ command \in {CmdW, CmdA}
        /\ IF myFile.open
           THEN /\ fs' = FsAfterWrite(fs, myFile, b)
                /\ myFile' = [myFile EXCEPT !.pos = FileSize(fs', myFile)]
                /\ txData' = Append(txData, b)
                /\ SCTRLB' = "ACK"
                /\ UNCHANGED led
           ELSE /\ led' = LEDred
                /\ SCTRLB' = "NACK"
                /\ UNCHANGED <<myFile, fs, txData>>
        /\ UNCHANGED <<nameVars, ch, rtc_buffer, rtc_buffer_ptr>>
     \/ /\ command = CmdC
        /\ IF RtcFits(rtc_buffer_ptr)
           THEN /\ rtc_buffer' = [rtc_buffer EXCEPT ![rtc_buffer_ptr] = b]
                /\ rtc_buffer_ptr' = rtc_buffer_ptr + 1
                /\ SCTRLB' = "ACK"
           ELSE /\ SCTRLB' = "NACK"
                /\ UNCHANGED <<rtc_buffer, rtc_buffer_ptr>>
        /\ UNCHANGED <<nameVars, ch, myFile, fs, led, txData>>
     \/ /\ command \notin {CmdF, CmdW, CmdA, CmdC}
        /\ SCTRLB' = UnexpectedDataAnswer
        /\ UNCHANGED <<nameVars, ch, myFile, fs, led, rtc_buffer, rtc_buffer_ptr,
                       txData>>

\* The history of M and D requests after a byte is written: a transaction
\* with another command than M, D or K ends it.
OpAfterByte(c, b) ==
  IF IsCommandByte(c) /\ b \notin {CmdM, CmdD, CmdK} THEN NoOp ELSE lastOp

DataHostWrite ==
  /\ bus = "write"
  /\ \E b \in HostBytes :
       /\ SDATA' = b
       /\ lastOp' = OpAfterByte(command, b)
       /\ \/ CommandByte(b)
          \/ DataByte(b)
  /\ nwritten' = IF nwritten < 2 THEN nwritten + 1 ELSE nwritten
  /\ cut' = "IDLE"
  /\ UNCHANGED <<bus, RXACK, checknack, clock, Filesize, dirVars, workload, card, vol,
                 sent, served, stream, parts>>
  /\ dropped' = (dropped /\ ~(command = CmdC /\ rtc_buffer_ptr = RtcLen - 1))

----------------------------------------------------------------------------
(* A byte requested by the host: DataHostRead.                             *)

\* Filebytes[i] of the union with Filesize (little-endian AVR).
Filebytes(size, i) == (size \div (256 ^ i)) % 256

\* Mutant: the size goes out least significant byte first.
SizeByteLsbFirst(size, p) == Filebytes(size, p)

\* The byte of the 'S' response at cursor p: Filebytes[3 - p].
SizeByte(size, p) == Filebytes(size, 3 - p)

\* Mutant: the cluster count goes out most significant byte first.
VolByteMsbFirst(v, p) ==
  CASE p = 1 -> v.fatType
    [] p >= 2 /\ p <= 5 -> Byte(v.blocks \div (256 ^ (p - 2)))
    [] p >= 6 /\ p <= 9 -> Byte(v.clusters \div (256 ^ (9 - p)))
    [] OTHER -> 0

\* The byte of the 'V' response at cursor p (p # 0).
VolByte(v, p) ==
  CASE p = 1 -> v.fatType
    [] p >= 2 /\ p <= 5 -> Byte(v.blocks \div (256 ^ (p - 2)))
    [] p >= 6 /\ p <= 9 -> Byte(v.clusters \div (256 ^ (p - 6)))
    [] OTHER -> 0

\* Mutant: the cursor advances at every request.
VolNextAlways(p) == p + 1

\* The cursor of the 'V' response after the byte at p (p # 0) is sent.
VolNext(p) == IF p >= 1 /\ p <= 9 THEN p + 1 ELSE p

\* Mutant: the size of an entry goes out most significant byte first.
EntrySizeByteMsbFirst(size, i) == Byte(size \div (256 ^ (3 - i)))

\* Byte i (0 = least significant) of a listed entry's size.
EntrySizeByte(size, i) == Byte(size \div (256 ^ i))

\* isDirectory() ? 'D' : 'F' for the entry in a slot, its name and its size.
EntryType(f, slot) == IF f[EntrySlots[slot]].kind = "dir" THEN TypeDir ELSE TypeFile
EntryName(slot) == CopyName(BaseName(EntrySlots[slot]))
EntrySize(f, slot) ==
  IF f[EntrySlots[slot]].kind = "dir" THEN 0 ELSE FileSizeOf(f[EntrySlots[slot]])

ReadR ==
  /\ command = CmdR
  /\ SDATA' = Byte(FileRead(fs, myFile))
  /\ myFile' = IF FileRead(fs, myFile) # -1 THEN [myFile EXCEPT !.pos = @ + 1] ELSE myFile
  /\ UNCHANGED <<ptr, Filesize, fs, vol, dirVars, led, fsCalls, chain>>

ReadE ==
  /\ command = CmdE
  /\ SDATA' = IF SDexists(fs, Filename) THEN 1 ELSE 0
  /\ fsCalls' = fsCalls + 1
  /\ UNCHANGED <<ptr, myFile, Filesize, fs, vol, dirVars, led, chain>>

ReadK ==
  /\ command = CmdK
  /\ IF NodeAt(fs, Filename).kind = "dir"
     THEN SDATA' = 1 /\ led' = LEDgreen
     ELSE SDATA' = 0 /\ led' = LEDred
  /\ fsCalls' = fsCalls + 1
  /\ UNCHANGED <<ptr, myFile, Filesize, fs, vol, dirVars, chain>>

\* The history forgets a file that an M, D or X request on its path changed.
ChainAfterOp(newfs) ==
  IF chain.valid /\ newfs # fs /\ chain.entry = EntryOf(Filename) THEN NoChain ELSE chain

ReadM ==
  /\ command = CmdM
  /\ SDATA' = IF MkdirOk(fs, Filename) THEN 1 ELSE 0
  /\ fs' = FsAfterMkdir(fs, Filename)
  /\ fsCalls' = fsCalls + 1
  /\ chain' = ChainAfterOp(fs')
  /\ UNCHANGED <<ptr, myFile, Filesize, vol, dirVars, led>>

ReadD ==
  /\ command = CmdD
  /\ SDATA' = IF RmdirOk(fs, Filename) THEN 1 ELSE 0
  /\ fs' = FsAfterRmdir(fs, Filename)
  /\ fsCalls' = fsCalls + 1
  /\ chain' = ChainAfterOp(fs')
  /\ UNCHANGED <<ptr, myFile, Filesize, vol, dirVars, led>>

ReadX ==
  /\ command = CmdX
  /\ SDATA' = IF RemoveOk(fs, Filename) THEN 1 ELSE 0
  /\ fs' = FsAfterRemove(fs, Filename)
  /\ fsCalls' = fsCalls + 1
  /\ chain' = ChainAfterOp(fs')
  /\ UNCHANGED <<ptr, myFile, Filesize, vol, dirVars, led>>

\* card.init(): the probe succeeds or fails.
ReadQ ==
  /\ command = CmdQ
  /\ \E ok \in BOOLEAN : SDATA' = IF ok THEN card.type ELSE SDATA
  /\ fsCalls' = fsCalls + 1
  /\ UNCHANGED <<ptr, myFile, Filesize, fs, vol, dirVars, led, chain>>

\* Mutant: a request after a failed probe probes again.
VolProbesAgain(p) == p = 0 \/ p = -1

\* Whether this request of a 'V' response probes the volume.
VolProbes(p) == p = 0

ReadV ==
  /\ command = CmdV
  /\ IF VolProbes(ptr)
     THEN /\ \E ok \in BOOLEAN :
               IF ok
               THEN /\ vol' = [fatType |-> card.fatType, blocks |-> card.blocks,
                               clusters |-> card.clusters]
                    /\ SDATA' = VolOk /\ ptr' = 1
               ELSE /\ SDATA' = VolFail /\ ptr' = -1
                    /\ UNCHANGED vol
          /\ fsCalls' = fsCalls + 1
     ELSE /\ SDATA' = VolByte(vol, ptr)
          /\ ptr' = VolNext(ptr)
          /\ UNCHANGED <<vol, fsCalls>>
  /\ UNCHANGED <<myFile, Filesize, fs, dirVars, led, chain>>

ReadS ==
  /\ command = CmdS
  /\ IF ptr < 4
     THEN /\ Filesize' = IF ptr = 0 THEN FileSize(fs, myFile) ELSE Filesize
          /\ SDATA' = SizeByte(Filesize', ptr)
          /\ ptr' = ptr + 1
     ELSE /\ SDATA' = 0
          /\ UNCHANGED <<Filesize, ptr>>
  /\ UNCHANGED <<myFile, fs, vol, dirVars, led, fsCalls, chain>>

\* Mutant: a request no command answers leaves the data register alone.
OtherAnswerStale == SDATA

\* The byte of a request no command answers.
OtherAnswer == 0

ReadOther ==
  /\ command \notin {CmdR, CmdE, CmdK, CmdL, CmdM, CmdQ, CmdV, CmdD, CmdX, CmdS}
  /\ SDATA' = OtherAnswer
  /\ UNCHANGED <<ptr, myFile, Filesize, fs, vol, dirVars, led, fsCalls, chain>>

\* The directory listing stream, one state of dirList_state at a time.
ListIdle ==
  LET d == [open |-> SDexists(fs, Filename), path |-> Filename, idx |-> 0]
      slot == NextSlot(fs, d, 0)
  IN /\ dirList_state = "IDLE"
     /\ fsCalls' = fsCalls + 1
     /\ IF ~d.open \/ NodeAt(fs, Filename).kind # "dir"
        THEN /\ dirList_currentDir' = NoDir
             /\ dirList_dirOpen' = FALSE
             /\ SDATA' = EndMarker
             /\ UNCHANGED <<dirList_state, dirList_byteCounter, dirList_filenameBuffer,
                            dirList_entrySize, dirList_currentEntry>>
        ELSE IF slot = 0
        THEN /\ dirList_currentEntry' = NoEntry
             /\ dirList_currentDir' = NoDir
             /\ dirList_dirOpen' = FALSE
             /\ SDATA' = EndMarker
             /\ UNCHANGED <<dirList_state, dirList_byteCounter, dirList_filenameBuffer,
                            dirList_entrySize>>
        ELSE /\ dirList_dirOpen' = TRUE
             /\ dirList_currentDir' = [d EXCEPT !.idx = slot]
             /\ dirList_currentEntry' = [open |-> TRUE, slot |-> slot]
             /\ SDATA' = EntryType(fs, slot)
             /\ dirList_filenameBuffer' = EntryName(slot)
             /\ dirList_state' = "SEND_NAME"
             /\ dirList_byteCounter' = 0
             /\ UNCHANGED dirList_entrySize

ListName ==
  /\ dirList_state = "SEND_NAME"
  /\ IF dirList_byteCounter < Len(dirList_filenameBuffer)
     THEN /\ SDATA' = dirList_filenameBuffer[dirList_byteCounter + 1]
          /\ dirList_byteCounter' = dirList_byteCounter + 1
          /\ UNCHANGED <<dirList_state, dirList_entrySize>>
     ELSE /\ SDATA' = 0
          /\ dirList_entrySize' = EntrySize(fs, dirList_currentEntry.slot)
          /\ dirList_state' = "SEND_SIZE"
          /\ dirList_byteCounter' = 0
  /\ UNCHANGED <<dirList_filenameBuffer, dirList_dirOpen, dirList_currentDir,
                 dirList_currentEntry, fsCalls>>

\* Mutant: the directory stays open when its last entry has been sent.
DirAfterLastOpen(d) == d

\* The directory handle after openNextFile() found no further entry: closed.
DirAfterLast(d) == NoDir

ListSize ==
  LET slot == NextSlot(fs, dirList_currentDir, dirList_currentDir.idx)
  IN /\ dirList_state = "SEND_SIZE"
     /\ SDATA' = EntrySizeByte(dirList_entrySize, dirList_byteCounter)
     /\ dirList_byteCounter' = dirList_byteCounter + 1
     /\ IF dirList_byteCounter + 1 >= 4
        THEN /\ fsCalls' = fsCalls + 1
             /\ IF slot # 0
                THEN /\ dirList_currentEntry' = [open |-> TRUE, slot |-> slot]
                     /\ dirList_currentDir' = [dirList_currentDir EXCEPT !.idx = slot]
                     /\ dirList_state' = "SEND_TYPE_NEXT"
                     /\ UNCHANGED dirList_dirOpen
                ELSE /\ dirList_currentEntry' = NoEntry
                     /\ dirList_currentDir' = DirAfterLast(dirList_currentDir)
                     /\ dirList_dirOpen' = FALSE
                     /\ dirList_state' = "SEND_END"
        ELSE UNCHANGED <<dirList_currentEntry, dirList_currentDir, dirList_dirOpen,
                         dirList_state, fsCalls>>
     /\ UNCHANGED <<dirList_filenameBuffer, dirList_entrySize>>

\* Mutant: the type byte of a further entry is sent over and over.
StateAfterTypeStays == "SEND_TYPE_NEXT"

\* The listing state after the type byte of a further entry.
StateAfterType == "SEND_NAME"

ListTypeNext ==
  /\ dirList_state = "SEND_TYPE_NEXT"
  /\ SDATA' = EntryType(fs, dirList_currentEntry.slot)
  /\ dirList_filenameBuffer' = EntryName(dirList_currentEntry.slot)
  /\ dirList_state' = StateAfterType
  /\ dirList_byteCounter' = 0
  /\ UNCHANGED <<dirList_entrySize, dirList_dirOpen, dirList_currentDir,
                 dirList_currentEntry, fsCalls>>

\* Mutant: the listing stays at its end once the marker is sent.
StateAfterEndStays == "SEND_END"

\* The listing state after the end marker.
StateAfterEnd == "IDLE"

ListEnd ==
  /\ dirList_state = "SEND_END"
  /\ SDATA' = EndMarker
  /\ dirList_state' = StateAfterEnd
  /\ UNCHANGED <<dirList_byteCounter, dirList_filenameBuffer, dirList_entrySize,
                 dirList_dirOpen, dirList_currentDir, dirList_currentEntry, fsCalls>>

ReadL ==
  /\ command = CmdL
  /\ \/ ListIdle
     \/ ListName
     \/ ListSize
     \/ ListTypeNext
     \/ ListEnd
  /\ led' = IF dirList_state' # "IDLE" THEN LEDgreen ELSE LEDoff
  /\ ptr' = IF dirList_state' # "IDLE" THEN 1 ELSE 0
  /\ UNCHANGED <<myFile, Filesize, fs, vol, chain>>

DataHostRead ==
  \/ ReadR
  \/ ReadE
  \/ ReadK
  \/ ReadL
  \/ ReadM
  \/ ReadQ
  \/ ReadV
  \/ ReadD
  \/ ReadX
  \/ ReadS
  \/ ReadOther

\* The history of M and D requests after one more request is served.
OpServed(answer) ==
  IF command \in {CmdM, CmdD}
  THEN [cmd |-> command, res |-> answer,
        was |-> NodeAt(fs, Filename).kind,
        made |-> command = CmdD /\ lastOp.cmd = CmdM /\ lastOp.res = 1]
  ELSE lastOp

\* Mutant: the ISR answers every data interrupt.
IsPhantomNever(rx, cn) == FALSE

\* Whether the ISR takes a data interrupt for the request the bus raises after
\* the host's NACK, which it must not answer.
IsPhantom(rx, cn) == rx /\ cn

\* The data interrupt in the read direction (ISR lines 494-502).  The first
\* interrupt after the address match finds RXACK as the last transfer left it;
\* later ones find the host's answer to the byte just sent, and after a NACK
\* the host reads no further.
DataRead ==
  /\ bus \in {"read", "sent"}
  /\ \E rx \in (IF bus = "read" THEN {RXACK} ELSE BOOLEAN) :
       /\ RXACK' = rx
       /\ bus' = IF bus = "sent" /\ rx THEN "done" ELSE "sent"
       /\ IF IsPhantom(rx, checknack)
          THEN /\ checknack' = FALSE
               /\ UNCHANGED <<SDATA, ptr, fileVars, fs, vol, dirVars, led, fsCalls,
                              chain, sent, served, stream, lastOp>>
          ELSE /\ served < ReadLimit
               /\ DataHostRead
               /\ checknack' = TRUE
               /\ sent' = Append(sent, SDATA')
               /\ served' = served + 1
               /\ stream' = IF command = CmdL THEN Append(stream, SDATA') ELSE stream
               /\ lastOp' = OpServed(SDATA')
  /\ UNCHANGED <<SCTRLB, command, ch, nameVars, rtcVars, workload, card, nwritten,
                 txData, cut, parts, dropped>>

----------------------------------------------------------------------------
(* The interrupt service routine, and the specification.                   *)

Next ==
  \/ AddressHostWrite
  \/ AddressHostRead
  \/ DataHostWrite
  \/ DataRead
  \/ Stop

Spec == Init /\ [][Next]_vars

\* The bus on which the data interrupt after the host's NACK may be missing:
\* the repeated start comes before the ISR has run, and the address interrupt
\* is served in its place.  RXACK still reports the NACK and checknack is
\* still set.
NackUnseen ==
  /\ bus = "sent"
  /\ bus' = "done" /\ RXACK' = TRUE
  /\ UNCHANGED <<SDATA, SCTRLB, sessVars, nameVars, rtcVars, fileVars, dirVars,
                 cardVars, led, histVars>>

InitStale == Init /\ workload = "vol"

NextStale ==
  \/ Next
  \/ NackUnseen

SpecStale == InitStale /\ [][NextStale]_vars

\* The host that lists directories, and never leaves a read request it can
\* issue unissued: after the address match for read the data interrupt
\* follows, and after the NACK of a chunk the next repeated start, unless a
\* stop or an address match for write comes instead.
InitListing == Init /\ workload = "dir"

SpecListing ==
  InitListing /\ [][Next]_vars /\ WF_vars(DataRead) /\ WF_vars(AddressHostRead)

----------------------------------------------------------------------------
(* Properties.                                                             *)

\* Just after a stop, or just after an address match for write.
AtBoundary == bus = "idle" \/ (bus = "write" /\ nwritten = 0)

\* Byte k (1 = most significant) of a 32-bit value.
BigEndian(n, k) == (n \div (256 ^ (4 - k))) % 256

\* C1: after every stop and after every address match for write the
\* session's file handle is closed.
C1_FileClosedAtBoundary == AtBoundary => ~myFile.open

\* C2: when a stop or an address match for write interrupts a listing in any
\* of its states, no directory handle and no entry handle stays open and the
\* listing cursor is Idle with its byte counter 0.
C2_ListingInterrupted ==
  (AtBoundary /\ cut # "IDLE") =>
     /\ ~dirList_currentDir.open
     /\ ~dirList_currentEntry.open
     /\ ~dirList_dirOpen
     /\ dirList_state = "IDLE"
     /\ dirList_byteCounter = 0

\* A listing cut by an address match for write while the directory and the
\* next entry were both open.
C2_Witness == bus = "write" /\ nwritten = 0 /\ cut = "SEND_TYPE_NEXT"

\* C3: an F transaction accepts at most 63 data bytes, and the file name is
\* always NUL-terminated inside Filename[0..63].
C3_NameBounded ==
  /\ command = CmdF => ch <= Namelength - 1
  /\ Len(Filename) <= Namelength - 1

\* C4: only the first byte written after an address match for write becomes
\* the active command.
C4_CommandOnlyFirstByte ==
  [][(command' # command /\ command' # CmdNone) => nwritten = 0]_vars

\* C5: the request the bus raises after the host NACKed a response byte moves
\* no cursor and makes no SD call; it only clears the NACK flag.
PhantomStep == bus = "sent" /\ bus' = "done"

C5_PhantomInert ==
  [][PhantomStep =>
       /\ ptr' = ptr
       /\ dirList_state' = dirList_state
       /\ dirList_byteCounter' = dirList_byteCounter
       /\ dirList_currentDir' = dirList_currentDir
       /\ myFile' = myFile
       /\ fsCalls' = fsCalls
       /\ fs' = fs
       /\ vol' = vol
       /\ served' = served
       /\ checknack' = FALSE]_vars

\* The phantom request of an M transaction that served one byte.
C5_Witness ==
  bus = "done" /\ command = CmdM /\ served = 1 /\ fsCalls = 1 /\ ~checknack

\* C6: a transaction with command M, D or X calls mkdir, rmdir or remove
\* exactly once, on its first read request.
C6_OneShotOnce == command \in {CmdM, CmdD, CmdX} => fsCalls <= 1

\* The persisted file name names the file the W then A* history is about.
OnChainFile ==
  chain.valid /\ Resolve(Filename) = "entry" /\ EntryOf(Filename) = chain.entry

\* The bytes served so far by an R transaction are the file's content `d`
\* from its start, and those of an S read are the length of `d`, big-endian.
ReadsBack(d) ==
  /\ command = CmdR =>
       \A i \in 1..Len(sent) :
          LET k == served - Len(sent) + i
          IN k <= Len(d) => sent[i] = d[k]
  /\ command = CmdS =>
       \A k \in 1..Len(sent) : k <= 4 => sent[k] = BigEndian(Len(d), k)

\* C7: after a W transaction that wrote d and ended by stop, R returns d and
\* S reports Len(d).
C7_WriteThenRead == (OnChainFile /\ chain.appends = 0) => ReadsBack(chain.data)

\* Two bytes written by W and both read back by R.
C7_Witness ==
  /\ OnChainFile /\ chain.appends = 0 /\ chain.data = <<7, 255>>
  /\ command = CmdR /\ sent = <<7, 255>>

\* C8: after a W transaction and then A transactions, each ended by stop, R
\* returns the bytes of W followed by the appended bytes and S reports their
\* total number.
C8_WriteAppendRead == (OnChainFile /\ chain.appends >= 1) => ReadsBack(chain.data)

\* One byte written by W, one appended by A, both read back in that order.
C8_Witness ==
  /\ OnChainFile /\ chain.appends = 1 /\ chain.data = <<7, 255>>
  /\ command = CmdR /\ sent = <<7, 255>>

\* C9: request k = 1..4 of an S read returns byte k of the open file's size,
\* most significant first; every later request returns 0.
C9_SizeBigEndian ==
  command = CmdS =>
    \A k \in 1..Len(sent) :
       sent[k] = IF k <= 4 THEN BigEndian(FileSize(fs, myFile), k) ELSE 0

\* Five requests on the large file: four distinct bytes, then 0.
C9_Witness ==
  /\ command = CmdS /\ Len(sent) = 5
  /\ FileSize(fs, myFile) >= BigSize
  /\ sent[1] # sent[2] /\ sent[3] # sent[4] /\ sent[5] = 0

\* Byte k of the volume-info response for the card fitted.
VolExpected(k) ==
  CASE k = 1 -> VolOk
    [] k = 2 -> card.fatType
    [] k >= 3 /\ k <= 6 -> Byte(card.blocks \div (256 ^ (k - 3)))
    [] k >= 7 /\ k <= 10 -> Byte(card.clusters \div (256 ^ (k - 7)))
    [] OTHER -> 0

\* C10: when the volume probe succeeds a V read returns status 1, fatType,
\* blocksPerCluster and clusterCount least significant byte first, then 0; the
\* probe is made on the first request of the read, and on no later one.
C10_VolumeInfo ==
  [][/\ (command' = CmdV /\ sent' # <<>> /\ sent'[1] = VolOk) =>
          \A k \in 1..Len(sent') : sent'[k] = VolExpected(k)
     /\ (command = CmdV /\ Len(sent') = Len(sent) + 1) =>
          fsCalls' = fsCalls + (IF Len(sent) = 0 THEN 1 ELSE 0)]_vars

\* Eleven requests answered after a successful probe of the larger card.
C10_Witness ==
  /\ command = CmdV /\ Len(sent) = 11 /\ sent[1] = VolOk /\ sent[11] = 0
  /\ card.type = 3 /\ fsCalls = 1

\* The entries of the root directory in iteration order, and the stream a
\* listing of them is to produce.
RECURSIVE Entries(_, _)
Entries(f, i) ==
  IF i > Len(EntrySlots) THEN <<>>
  ELSE (IF f[EntrySlots[i]].kind = "none" THEN <<>> ELSE <<EntrySlots[i]>>)
       \o Entries(f, i + 1)

LittleEndian4(n) ==
  <<n % 256, (n \div 256) % 256, (n \div 65536) % 256, (n \div 16777216) % 256>>

EntryRecord(f, e) ==
  <<IF f[e].kind = "dir" THEN 68 ELSE 70>> \o e \o <<0>>
    \o LittleEndian4(IF f[e].kind = "dir" THEN 0 ELSE f[e].base + Len(f[e].data))

RECURSIVE ListingOf(_, _)
ListingOf(f, es) ==
  IF es = <<>> THEN <<255>> ELSE EntryRecord(f, Head(es)) \o ListingOf(f, Tail(es))

\* C11: the bytes served by an L transaction on a directory holding entries
\* e1..en, n >= 1, are for each entry its type 'D' or 'F', its base name, a
\* zero byte and its size in 4 bytes least significant first (0 for a
\* directory), and 0xFF after the last entry.
C11_ListingStream ==
  (command = CmdL /\ Resolve(Filename) = "root" /\ Entries(fs, 1) # <<>>) =>
     \A k \in 1..Len(stream) :
        k <= Len(ListingOf(fs, Entries(fs, 1))) =>
           stream[k] = ListingOf(fs, Entries(fs, 1))[k]

\* The whole stream of a root holding a directory and a one-byte file.
C11_Witness ==
  /\ command = CmdL /\ Len(Entries(fs, 1)) = 2
  /\ stream = <<68, 97, 0, 0, 0, 0, 0, 70, 98, 0, 1, 0, 0, 0, 255>>

\* The path names an empty directory, nothing that can be opened, or a file.
NothingToList(f, name) ==
  \/ Resolve(name) = "invalid"
  \/ Resolve(name) = "root" /\ Entries(f, 1) = <<>>
  \/ Resolve(name) = "entry" /\ f[EntryOf(name)].kind \in {"none", "file", "dir"}

\* C12: when the file name names an empty directory, a path that cannot be
\* opened or a path that is no directory, every read request of an L
\* transaction returns 0xFF, the listing stays Idle and no directory or entry
\* handle is open after the request.
C12_NothingListed ==
  (command = CmdL /\ NothingToList(fs, Filename)) =>
     /\ \A k \in 1..Len(stream) : stream[k] = 255
     /\ dirList_state = "IDLE"
     /\ ~dirList_currentDir.open /\ ~dirList_currentEntry.open /\ ~dirList_dirOpen

\* Two requests on an empty directory beside a file in the root.
C12_Witness ==
  /\ command = CmdL /\ Filename = <<97>> /\ fs[<<97>>].kind = "dir"
  /\ fs[<<98>>].kind = "file" /\ stream = <<255, 255>>

\* The six bytes of a C transaction are all in range.
InRange(b) ==
  /\ b[1] \in 1..12 /\ b[2] \in 1..31
  /\ b[3] \in 0..23 /\ b[4] \in 0..59 /\ b[5] \in 0..59
  /\ (IF b[0] < 80 THEN 2000 + b[0] ELSE 1900 + b[0]) >= 1980

\* C13: the clock changes only at a stop that ends a C transaction which
\* received 6 bytes, all in range; a stop after fewer bytes or with a byte
\* out of range, and every other event, leave the clock as it was.
C13_ClockCommit ==
  [][clock' # clock =>
       /\ bus' = "idle"
       /\ command = CmdC
       /\ rtc_buffer_ptr = 6
       /\ InRange(rtc_buffer)]_vars

\* The clock was set, and a later C transaction with month 13 was refused.
C13_Witness ==
  /\ bus = "idle" /\ clock.year = 2024 /\ clock.month = 7
  /\ rtc_buffer[1] = 13

\* The stop that commits the clock bytes of a C transaction.
ClockStop ==
  bus' = "idle" /\ command = CmdC /\ rtc_buffer_ptr = 6 /\ InRange(rtc_buffer)

\* The clock the six bytes YY MM DD HH MM SS stand for.
ClockFor(b) ==
  [year |-> IF b[0] < 80 THEN 2000 + b[0] ELSE 1900 + b[0],
   month |-> b[1], day |-> b[2], hour |-> b[3], minute |-> b[4], second |-> b[5]]

\* The date and time a FAT stamp reads as.
StampRead(st) ==
  [year |-> 1980 + st[1] \div 512, month |-> (st[1] \div 32) % 16, day |-> st[1] % 32,
   hour |-> st[2] \div 2048, minute |-> (st[2] \div 32) % 64, second |-> 2 * (st[2] % 32)]

\* A file is created in this step under the name n.
Creates(n) == fs[n].kind = "none" /\ fs'[n].kind = "file"

\* The bytes 18 07 1A 0A 1E 00 and the bytes 24 07 1A 0A 1E 00 (hexadecimal).
Example18 == [i \in 0..5 |-> <<24, 7, 26, 10, 30, 0>>[i + 1]]
Example24 == [i \in 0..5 |-> <<36, 7, 26, 10, 30, 0>>[i + 1]]
ExampleClock ==
  [year |-> 2024, month |-> 7, day |-> 26, hour |-> 10, minute |-> 30, second |-> 0]

\* C14 as stated: a stop ending a C transaction with 6 valid bytes sets the
\* clock to (2000+YY or 1900+YY, MM, DD, HH, MM, SS), a file created afterwards
\* is stamped with exactly that date and time, and the bytes 24 07 1A 0A 1E 00
\* give 2024-07-26 10:30:00.
C14_ClockAndStampExact ==
  [][/\ ClockStop => clock' = ClockFor(rtc_buffer)
     /\ \A n \in EntryNames : Creates(n) => StampRead(fs'[n].stamp) = clock
     /\ (ClockStop /\ rtc_buffer = Example24) => clock' = ExampleClock]_vars

\* C14, amended: the clock is set as stated; a file created afterwards is
\* stamped with the clock's date and time in FAT form, that is with the second
\* rounded down to an even one and the year less 128 once it is past 2107;
\* the bytes that give 2024-07-26 10:30:00 are 18 07 1A 0A 1E 00.
C14_ClockAndStamp ==
  [][/\ ClockStop => clock' = ClockFor(rtc_buffer)
     /\ \A n \in EntryNames :
          Creates(n) =>
            StampRead(fs'[n].stamp) =
              [clock EXCEPT !.second = 2 * (@ \div 2),
                            !.year = IF @ <= 2107 THEN @ ELSE @ - 128]
     /\ (ClockStop /\ rtc_buffer = Example18) => clock' = ExampleClock]_vars

\* A file created after the clock was set to 2024-07-26 10:30:00.
C14_Witness ==
  /\ clock = ExampleClock /\ rtc_buffer = Example18
  /\ fs[<<97>>].kind = "file" /\ StampRead(fs[<<97>>].stamp) = ExampleClock

\* C15: after an F transaction set a file name of at most 63 bytes, every read
\* request of an E transaction returns 1 if that path exists on the card at
\* the time of the request and 0 otherwise, whatever transactions other than
\* F came in between.
C15_ExistsOfName ==
  (command = CmdE /\ named # <<>> /\ Len(named) <= 63) =>
     \A k \in 1..Len(sent) : sent[k] = IF SDexists(fs, named) THEN 1 ELSE 0

\* The large file was named, then removed by an X transaction, then asked for.
C15_Witness ==
  /\ workload = "big" /\ command = CmdE /\ named = <<97>>
  /\ fs[<<97>>].kind = "none" /\ sent = <<0>>

\* C16: the file name changes only when a data byte is accepted while the
\* active command is F; address matches, read requests, stops, command bytes
\* (F too) and the data bytes of other commands leave it as it was.
C16_NameFrame ==
  [][Filename' # Filename =>
       /\ bus = "write" /\ bus' = "write"
       /\ command = CmdF /\ command' = CmdF
       /\ SCTRLB' = "ACK"]_vars

\* A second F transaction has sent its command byte and no data: the name
\* set by the first is still there.
C16_Witness ==
  /\ bus = "write" /\ command = CmdF /\ nwritten = 1 /\ ch = 0
  /\ Filename = <<97>> /\ named = <<97>>

\* C17: every read request of a Q transaction probes the card and returns the
\* card type when the probe succeeds and 0 when it fails, never another byte.
C17_CardTypeOrZero ==
  [][(command = CmdQ /\ served' = served + 1) =>
        /\ SDATA' \in {0, card.type}
        /\ fsCalls' = fsCalls + 1]_vars

\* C18: the read request of an R transaction that finds the file exhausted
\* returns the done sentinel and closes the file handle at once.
C18_ClosedAtExhaustion ==
  [][(command = CmdR /\ served' = served + 1 /\ FileRead(fs, myFile) = -1) =>
        /\ SDATA' = 255
        /\ ~myFile'.open]_vars

\* C19: a read request of an R transaction served while unread bytes remain
\* never returns the value returned on exhaustion (0xFF).
C19_SentinelDistinct ==
  [][(command = CmdR /\ served' = served + 1 /\ FileRead(fs, myFile) # -1) =>
        SDATA' # 255]_vars

\* What every read request of the K transaction now running has returned.
KReports(v) == \A k \in 1..Len(sent) : sent[k] = v

WriteStep == bus = "write" /\ bus' = "write" /\ nwritten' > 0

\* The commands that take no data bytes.
NoDataCommands == {CmdR, CmdS, CmdE, CmdK, CmdL, CmdM, CmdD, CmdX, CmdQ, CmdV}

\* C21: a data byte written while the active command is R, S, E, K, L, M, D,
\* X, Q or V is answered NACK and changes no session state, no cursor and no
\* file; a data byte is acknowledged only under F, W, A or C.
C21_UnexpectedDataRejected ==
  [][WriteStep =>
       /\ command \in NoDataCommands =>
            /\ SCTRLB' = "NACK"
            /\ UNCHANGED <<command, ch, ptr, checknack, rtc_buffer, rtc_buffer_ptr,
                           clock, Filename, FilenameEnd, myFile, Filesize, dirVars,
                           fs, vol, led>>
       /\ (command # CmdNone /\ SCTRLB' = "ACK") =>
            command \in {CmdF, CmdW, CmdA, CmdC}]_vars

\* A data byte refused after the command byte L.
C21_Witness ==
  bus = "write" /\ command = CmdL /\ nwritten = 2 /\ SDATA = 7 /\ SCTRLB = "NACK"

\* A command byte that DataHostWrite refuses.
RejectedCommand == WriteStep /\ command = CmdNone /\ SCTRLB' = "NACK"

\* C22: a command byte W, A, R or S whose open fails, and a command byte
\* outside the command set, is answered NACK and leaves the active command
\* none, no file handle open, and the file name, the clock and the cursors as
\* they were.
C22_RejectedCommandClean ==
  [][RejectedCommand =>
       /\ command' = CmdNone
       /\ ~myFile'.open
       /\ UNCHANGED <<Filename, FilenameEnd, clock, ch, ptr, rtc_buffer_ptr,
                      dirList_state, dirList_byteCounter>>]_vars

\* The same, but for the file handle of an unknown command byte, which stays
\* as the address match left it.
C22_RejectedCommandKeeps ==
  [][RejectedCommand =>
       /\ command' = CmdNone
       /\ SDATA' \in OpeningCommands => ~myFile'.open /\ led' = LEDred
       /\ SDATA' \notin OpeningCommands => myFile' = myFile /\ led' = led
       /\ UNCHANGED <<Filename, FilenameEnd, clock, ch, ptr, rtc_buffer_ptr,
                      dirList_state, dirList_byteCounter>>]_vars

\* C23: after every stop the active command is none, ch, ptr and
\* rtc_buffer_ptr are 0, the listing cursor is Idle and checknack is false;
\* a stop that follows a stop changes nothing.
C23_StopResets ==
  [][bus' = "idle" =>
       /\ command' = CmdNone
       /\ ch' = 0 /\ ptr' = 0 /\ rtc_buffer_ptr' = 0
       /\ dirList_state' = "IDLE"
       /\ ~checknack'
       /\ bus = "idle" =>
            UNCHANGED <<twiVars, sessVars, Filename, FilenameEnd, rtcVars, fileVars,
                        dirVars, cardVars, led>>]_vars

\* A stop that arrived while a listing was sending an entry's size.
C23_Witness ==
  bus = "idle" /\ cut = "SEND_SIZE" /\ command = CmdNone /\ ptr = 0 /\ ~checknack

\* C24: an address match for write is acknowledged and leaves the active
\* command none, ch, ptr and rtc_buffer_ptr 0, the listing cursor Idle and
\* both LEDs off.
C24_AddressWriteResets ==
  (bus = "write" /\ nwritten = 0) =>
     /\ SCTRLB = "ACK"
     /\ command = CmdNone
     /\ ch = 0 /\ ptr = 0 /\ rtc_buffer_ptr = 0
     /\ dirList_state = "IDLE"
     /\ led = LEDoff

\* An address match for write that cut a listing while it sent a name, the
\* green LED lit.
C24_Witness ==
  bus = "write" /\ nwritten = 0 /\ cut = "SEND_NAME" /\ led = LEDoff /\ ptr = 0

\* The listing of the root, end marker included.
WholeListing == ListingOf(fs, Entries(fs, 1))

\* Byte k (from 1) of the file the session has open, as read() returns it.
ReadByte(k) ==
  LET node == NodeAt(fs, myFile.path)
  IN IF k <= FileSizeOf(node) THEN ByteAt(node, k - 1) ELSE 255

\* C25: an address match for read is acknowledged and changes nothing but
\* ptr, which becomes 0 exactly under S and V; so whatever the read requests
\* an R or L transaction is cut into, request k returns byte k of the file
\* or of the listing.
C25_AddressReadKeepsPlace ==
  /\ [][bus' = "read" =>
          /\ SCTRLB' = "ACK"
          /\ ptr' = IF command \in {CmdS, CmdV} THEN 0 ELSE ptr
          /\ UNCHANGED <<RXACK, SDATA, command, ch, checknack, Filename, FilenameEnd,
                         rtcVars, fileVars, dirVars, cardVars, led>>]_vars
  /\ [](command = CmdR /\ myFile.open =>
          \A i \in 1..Len(sent) : sent[i] = ReadByte(served - Len(sent) + i))
  /\ [](command = CmdL /\ Resolve(Filename) = "root" =>
          \A k \in 1..Len(stream) :
             k <= Len(WholeListing) => stream[k] = WholeListing[k])

\* The second read request of a listing, after a repeated start: the first
\* served the type byte, this one finds the cursor in the name.
C25_Witness ==
  /\ bus = "read" /\ command = CmdL /\ served = 1 /\ stream = <<TypeDir>>
  /\ dirList_state = "SEND_NAME" /\ ptr = 1

\* C26: after every stop both LEDs are off.
C26_LedsOffAfterStop == bus = "idle" => led = LEDoff

\* A read request that the ISR serves.
ServeStep == served' = served + 1

\* C27: a read request served while no command is active, or while F, W, A
\* or C is, returns 0, makes no SD call and changes nothing but checknack,
\* which it sets.
C27_NoCommandReadsZero ==
  [][(ServeStep /\ command \in {CmdNone, CmdF, CmdW, CmdA, CmdC}) =>
       /\ SDATA' = 0
       /\ checknack'
       /\ fsCalls' = fsCalls
       /\ UNCHANGED <<command, ch, ptr, Filename, FilenameEnd, rtcVars, fileVars,
                      dirVars, cardVars, led>>]_vars

\* A read request served after the command byte of the transaction was
\* refused.
C27_Witness ==
  /\ bus = "sent" /\ command = CmdNone /\ nwritten = 1 /\ served = 1
  /\ SDATA = 0 /\ checknack

\* C28: the listing holds one directory handle and one entry handle; the
\* directory handle is open exactly in the states SEND_NAME, SEND_SIZE and
\* SEND_TYPE_NEXT, and in IDLE and SEND_END neither handle is open.
C28_ListingHandles ==
  /\ dirList_currentDir.open <=>
       dirList_state \in {"SEND_NAME", "SEND_SIZE", "SEND_TYPE_NEXT"}
  /\ dirList_dirOpen <=> dirList_currentDir.open
  /\ dirList_currentEntry.open => dirList_currentDir.open
  /\ dirList_state \in {"IDLE", "SEND_END"} =>
       ~dirList_currentDir.open /\ ~dirList_currentEntry.open

\* The last size byte of the first of two entries has been sent: the
\* directory and the second entry are open.
C28_Witness ==
  /\ dirList_state = "SEND_TYPE_NEXT"
  /\ dirList_currentDir.open /\ dirList_currentEntry.open
  /\ dirList_currentEntry.slot = 2

\* An L transaction whose first read request is about to be served.
ListingBegun == command = CmdL /\ bus = "read" /\ served = 0

\* A read request of the L transaction returned the end marker and left the
\* listing Idle.
ListingEnded ==
  /\ command = CmdL /\ stream # <<>>
  /\ stream[Len(stream)] = EndMarker
  /\ dirList_state = "IDLE"

\* The entries of the directory the file name names.
Listed == IF Resolve(Filename) = "root" THEN Entries(fs, 1) ELSE <<>>

\* The requests an entry costs at most: type, 12 name bytes, NUL, 4 size bytes.
EntryCost == 1 + (NameBufLen - 1) + 1 + 4

\* C29: while the host keeps reading in an L transaction, with no stop and
\* no address match for write, a read request returns the end marker 0xFF
\* and leaves the listing Idle; with n entries this takes at most
\* n * (1 + 12 + 1 + 4) requests before the marker.
C29_ListingEnds ==
  /\ ListingBegun ~> (ListingEnded \/ command # CmdL)
  /\ [](command = CmdL =>
          \A k \in 1..Len(stream) :
             k > EntryCost * Len(Listed) =>
                \E j \in 1..k : stream[j] = EndMarker)

\* The listing of two entries has reached its end marker in 15 requests.
C29_Witness ==
  /\ ListingEnded /\ Len(Entries(fs, 1)) = 2 /\ served = 15
  /\ dirList_state = "IDLE" /\ ~dirList_dirOpen

\* C30: once the end marker of a non-empty listing has been returned the
\* listing is Idle with no directory open, and a further read request of the
\* same L transaction opens the directory again and returns the stream from
\* the first entry's type byte on.
C30_ListingRestarts ==
  (command = CmdL /\ Resolve(Filename) = "root" /\ Entries(fs, 1) # <<>>) =>
     /\ Len(stream) = Len(WholeListing) =>
          /\ stream[Len(stream)] = EndMarker
          /\ dirList_state = "IDLE"
          /\ ~dirList_currentDir.open /\ ~dirList_currentEntry.open
     /\ \A k \in 1..Len(stream) :
          k > Len(WholeListing) =>
             stream[k] = WholeListing[((k - 1) % Len(WholeListing)) + 1]
     /\ Len(stream) = Len(WholeListing) + 1 =>
          /\ dirList_state = "SEND_NAME"
          /\ dirList_currentDir.open /\ dirList_currentDir.path = Filename
          /\ dirList_currentEntry.open
          /\ EntrySlots[dirList_currentEntry.slot] = Entries(fs, 1)[1]

\* The listing of a root holding one file, and the request after its end
\* marker: the file's type byte again.
C30_Witness ==
  /\ command = CmdL /\ stream = <<70, 98, 0, 1, 0, 0, 0, 255, 70>>
  /\ dirList_state = "SEND_NAME" /\ dirList_currentDir.open

\* A request of a V response served after the probe of the same read failed.
AfterFailedProbe == ServeStep /\ command = CmdV /\ ptr = -1

\* The request of a V response whose probe fails.
ProbeFails == ServeStep /\ command = CmdV /\ ptr = 0 /\ SDATA' = VolFail

\* C31 as stated: after a failed probe the next 9 requests return the cached
\* fatType, blocksPerCluster and clusterCount bytes.
C31_FailedProbeSendsCache ==
  [][(AfterFailedProbe /\ Len(sent) <= 9) => SDATA' = VolByte(vol, Len(sent))]_vars

\* C31, amended: the request whose probe fails returns 0xFF and leaves the
\* cached volume info as it was; the later requests of that read return 0,
\* probe nothing and leave the cache and ptr alone.
C31_FailedProbeSendsZeros ==
  [][/\ ProbeFails => vol' = vol /\ ptr' = -1 /\ fsCalls' = fsCalls + 1
     /\ AfterFailedProbe =>
          /\ SDATA' = 0
          /\ vol' = vol /\ ptr' = -1 /\ fsCalls' = fsCalls
          /\ sent[1] = VolFail]_vars

\* Ten requests answered after a probe that failed.
C31_Witness ==
  /\ command = CmdV /\ ptr = -1 /\ Len(sent) = 10 /\ fsCalls = 1
  /\ sent[1] = VolFail /\ \A k \in 2..10 : sent[k] = 0
  /\ vol.fatType # 0

\* C32: ptr stays within -1..10, and within 0..4 while the command is S; a
\* request past the 4 bytes of an S response or the 10 bytes of a V response
\* returns 0, leaves ptr where it is and repeats neither the size nor the
\* volume computation.
C32_CursorBounded ==
  /\ [](ptr \in -1..10 /\ (command = CmdS => ptr \in 0..4))
  /\ [][/\ (ServeStep /\ command = CmdS /\ ptr = 4) =>
             SDATA' = 0 /\ ptr' = 4 /\ Filesize' = Filesize /\ fsCalls' = fsCalls
        /\ (ServeStep /\ command = CmdV /\ ptr = 10) =>
             SDATA' = 0 /\ ptr' = 10 /\ vol' = vol /\ fsCalls' = fsCalls]_vars

\* The fifth request of an S response on a file that is not empty.
C32_Witness ==
  /\ command = CmdS /\ ptr = 4 /\ Len(sent) = 5 /\ sent[5] = 0
  /\ Filesize > 0

\* The file the history of one-byte transactions is about.
PartsFile == NodeAt(fs, parts.name)

\* C33: a payload sent as one-byte transactions, each the command byte W or
\* A, one data byte and a stop, is what the file holds afterwards, in order.
C33_PiecesJoin ==
  (bus = "idle" /\ parts.cmd # CmdNone) =>
     PartsFile.kind = "file" /\ PartsFile.base = 0 /\ PartsFile.data = parts.data

\* What the file holds after such transactions: under A the whole payload,
\* under W its last byte.
C33_PiecesJoinUnderAppend ==
  (bus = "idle" /\ parts.cmd # CmdNone) =>
     /\ PartsFile.kind = "file" /\ PartsFile.base = 0
     /\ parts.cmd = CmdA => PartsFile.data = parts.data
     /\ parts.cmd = CmdW => PartsFile.data = <<parts.data[Len(parts.data)]>>

\* The command byte W or A that opens the file.
OpenStep(c) == WriteStep /\ command = CmdNone /\ command' = c

\* The file the file name names holds nothing.
IsEmptyFile(f) ==
  f[EntryOf(Filename)].kind = "file" /\ FileSizeOf(f[EntryOf(Filename)]) = 0

\* C34: a W transaction without data bytes leaves the file existing and
\* empty whatever it held; an A transaction without data bytes leaves an
\* existing file as it was and creates an empty file where there was none.
C34_EmptyWriteAppend ==
  /\ [][/\ OpenStep(CmdW) => IsEmptyFile(fs')
        /\ OpenStep(CmdA) =>
             IF fs[EntryOf(Filename)].kind = "file"
             THEN fs'[EntryOf(Filename)] = fs[EntryOf(Filename)]
             ELSE IsEmptyFile(fs')
        /\ (command \in {CmdW, CmdA} /\ txData = <<>> /\ bus' = "idle") => fs' = fs]_vars
  /\ []((command = CmdW /\ txData = <<>>) => IsEmptyFile(fs))

\* A W transaction without data bytes has ended by stop and left the file it
\* created empty.
C34_Witness ==
  /\ bus = "idle" /\ chain.valid /\ chain.appends = 0 /\ chain.data = <<>>
  /\ chain.entry = EntryOf(Filename) /\ IsEmptyFile(fs)
  /\ fs[EntryOf(Filename)].stamp # NoStamp

\* C35: whenever the active command is W, A, R or S the session's file is
\* open; so a data byte written under W or A is never refused.
C35_CommandHasFile ==
  /\ [](command \in OpeningCommands => myFile.open)
  /\ [][(WriteStep /\ command \in {CmdW, CmdA}) =>
          SCTRLB' = "ACK" /\ led' = led /\ txData' = Append(txData, SDATA')]_vars

\* A byte appended under A and acknowledged.
C35_Witness ==
  /\ bus = "write" /\ command = CmdA /\ myFile.open /\ txData = <<255>>
  /\ SDATA = 255 /\ SCTRLB = "ACK"

\* C36: in a C transaction the 7th and every later data byte is answered
\* NACK and leaves rtc_buffer and rtc_buffer_ptr (6) as they are; the stop
\* that follows validates and commits the first 6 bytes.
C36_ExtraClockBytes ==
  [][/\ (WriteStep /\ command = CmdC /\ rtc_buffer_ptr = 6) =>
          /\ SCTRLB' = "NACK"
          /\ rtc_buffer' = rtc_buffer /\ rtc_buffer_ptr' = 6
          /\ command' = CmdC /\ clock' = clock
     /\ (bus = "write" /\ bus' = "idle" /\ command = CmdC /\ rtc_buffer_ptr = 6
           /\ SCTRLB = "NACK") =>
          clock' = IF InRange(rtc_buffer) THEN ClockFor(rtc_buffer) ELSE clock]_vars

\* The stop after a refused 7th byte has set the clock to the first six.
C36_Witness ==
  /\ bus = "idle" /\ SCTRLB = "NACK" /\ SDATA = 0
  /\ rtc_buffer[0] = 36 /\ rtc_buffer[5] = 59
  /\ clock = ClockFor(rtc_buffer)

\* C37: a C transaction that received 6 bytes, valid or not, and is superseded by an
\* address match for write before its stop is not committed: the clock is
\* unchanged by that address match and by the stop of the transaction that
\* superseded it.
C37_SupersededClockDropped ==
  [][/\ (bus' = "write" /\ nwritten' = 0) => clock' = clock
     /\ dropped => clock' = clock]_vars

\* An F transaction has superseded a C transaction that held six valid
\* bytes: the clock is still the one set at power-up.
C37_Witness ==
  /\ dropped /\ bus = "write" /\ command = CmdF /\ ch = 1
  /\ InRange(rtc_buffer) /\ rtc_buffer[0] = 24
  /\ clock = DefaultClock

\* C38: the first data interrupt in the read direction after an address
\* match is served as a request of the host, never taken for the one that
\* follows a NACK.
C38_FirstReadServed == [][bus = "read" => served' = served + 1]_vars

\* C39: the first request served after an address match for read under V or
\* S finds ptr = 0 and so returns the status byte of the volume probe or the
\* most significant byte of the file's size, whatever came before.
C39_FirstByteFromStart ==
  [][(ServeStep /\ sent = <<>> /\ command \in {CmdV, CmdS}) =>
       /\ ptr = 0 /\ ptr' \in {1, -1}
       /\ command = CmdV => SDATA' \in {VolOk, VolFail} /\ fsCalls' = fsCalls + 1
       /\ command = CmdS =>
            SDATA' = BigEndian(FileSizeOf(NodeAt(fs, myFile.path)), 1)]_vars

\* The size of the large file asked for again after a repeated start: the
\* response begins again with its most significant byte.
C39_Witness ==
  /\ command = CmdS /\ served = 5 /\ sent = <<1>> /\ ptr = 1
  /\ Filesize = BigSize

\* C40: in every reachable state the year of the clock lies within
\* 1980..2079, the range of the expansion of a two-digit year.
C40_YearInRange == clock.year \in 1980..2079

====
